---- MODULE Spec2Model ----
(***************************************************************************)
(* SliceNMorph3D: the cutting subsystem of the editor.                     *)
(*                                                                         *)
(* The model follows the current version of the hooks: useCuttingLogic     *)
(* (src/src/components/ui/editor/useCuttingLogic.ts, lines 952-1876),       *)
(* useModelLoading (same file, lines 1878-2001) and the Editor component   *)
(* (src/src/components/ui/editor.tsx, lines 254-417).  Every handler runs  *)
(* to completion on the single event-loop thread, so one handler is one    *)
(* action; requestAnimationFrame / setTimeout / loader callbacks are       *)
(* separate actions that the event loop may interleave with user input.    *)
(***************************************************************************)
EXTENDS Integers, Sequences, FiniteSets, TLC

\* ---------------------------------------------------------------- bounds
MaxLoads == 2
MaxMeshes == 2
MaxChains == 2
MaxShift == 1
MaxDrag == 1
MaxSize == 2

\* ------------------------------------------------------------- constants
MinDragDistance == 1

NoModel == 0
NoPart == <<0, 0>>
NoPoint == -1
Origin == 0

\* materials: the i-th Fragment of a Part is created with its own material
\* OwnMaterial(i); the selection highlight is one new blue material; a clone
\* is a new object, told apart from the material it copies
Highlight == 0
OwnMaterial(i) == i
CloneOf(m) == IF m > 0 THEN 0 - m ELSE m

\* no Part, hence no mesh material
NoMaterials == << >>

\* -------------------------------------------------------------- matrices
\* THREE.Matrix4 restricted to a planar section of the scene: homogeneous
\* 3x3 matrices over the integers, rows first
Identity == <<<<1, 0, 0>>, <<0, 1, 0>>, <<0, 0, 1>>>>
ZeroMatrix == <<<<0, 0, 0>>, <<0, 0, 0>>, <<0, 0, 0>>>>
NoMatrix == << >>

\* Matrix4.multiplyMatrices(a, b): the matrix product a x b
MultiplyMatrices(a, b) ==
    [i \in 1..3 |-> [j \in 1..3 |->
        a[i][1] * b[1][j] + a[i][2] * b[2][j] + a[i][3] * b[3][j]]]

\* Matrix4.multiply(m): this = this x m
Multiply(this, m) == MultiplyMatrices(this, m)

Determinant(m) ==
      m[1][1] * (m[2][2] * m[3][3] - m[2][3] * m[3][2])
    - m[1][2] * (m[2][1] * m[3][3] - m[2][3] * m[3][1])
    + m[1][3] * (m[2][1] * m[3][2] - m[2][2] * m[3][1])

\* the transposed matrix of cofactors of m
Adjugate(m) ==
    <<<<m[2][2] * m[3][3] - m[2][3] * m[3][2],
        m[1][3] * m[3][2] - m[1][2] * m[3][3],
        m[1][2] * m[2][3] - m[1][3] * m[2][2]>>,
      <<m[2][3] * m[3][1] - m[2][1] * m[3][3],
        m[1][1] * m[3][3] - m[1][3] * m[3][1],
        m[1][3] * m[2][1] - m[1][1] * m[2][3]>>,
      <<m[2][1] * m[3][2] - m[2][2] * m[3][1],
        m[1][2] * m[3][1] - m[1][1] * m[3][2],
        m[1][1] * m[2][2] - m[1][2] * m[2][1]>>>>

\* Matrix4.invert(): cofactors over the determinant, the zero matrix when the
\* determinant is 0 (the division is exact for the rigid motions used here)
Invert(m) ==
    IF Determinant(m) = 0
    THEN ZeroMatrix
    ELSE [i \in 1..3 |-> [j \in 1..3 |-> Adjugate(m)[i][j] \div Determinant(m)]]

\* Matrix4.makeTranslation
Translation(x, y) == <<<<1, 0, x>>, <<0, 1, y>>, <<0, 0, 1>>>>

\* the rotation by k quarter turns
RECURSIVE Rotation(_)
Rotation(k) ==
    IF k = 0
    THEN Identity
    ELSE MultiplyMatrices(<<<<0, 0 - 1, 0>>, <<1, 0, 0>>, <<0, 0, 1>>>>, Rotation(k - 1))

\* Object3D.updateMatrix: matrix.compose(position, quaternion, scale) with
\* scale 1, the translation applied after the rotation
Compose(x, y, k) == MultiplyMatrices(Translation(x, y), Rotation(k))

\* Matrix4.makeScale with one factor for all axes
Scaling(s) == <<<<s, 0, 0>>, <<0, s, 0>>, <<0, 0, 1>>>>

Shifts == (0 - MaxShift)..MaxShift
Turns == 0..3

\* world transforms of a leaf mesh, and of the plane mesh placed at the
\* Model's centre and turned from its default normal to the cut normal
WorldMatrices == {Compose(x, y, k) : x \in Shifts, y \in Shifts, k \in Turns}

\* --------------------------------------------------------------- vectors
\* THREE.Vector3 with integer components, in units of 0.1
ZeroVector == <<0, 0, 0>>
UnitX == <<1, 0, 0>>
NoPlane == << >>
NoScale == << >>

\* Vector3.subVectors(a, b)
SubVectors(a, b) == <<a[1] - b[1], a[2] - b[2], a[3] - b[3]>>

\* Vector3.crossVectors(a, b)
CrossVectors(a, b) ==
    <<a[2] * b[3] - a[3] * b[2],
      a[3] * b[1] - a[1] * b[3],
      a[1] * b[2] - a[2] * b[1]>>

\* the square of Vector3.distanceTo
DistanceToSquared(a, b) ==
    LET d == SubVectors(a, b) IN d[1] * d[1] + d[2] * d[2] + d[3] * d[3]

Abs(n) == IF n < 0 THEN 0 - n ELSE n

RECURSIVE Gcd(_, _)
Gcd(a, b) == IF b = 0 THEN a ELSE Gcd(b, a % b)

\* Vector3.normalize(): divideScalar(length() || 1), the vector of the same
\* direction and length 1; the zero vector stays the zero vector.  Over the
\* integers the direction is kept as the shortest integer vector along it.
Normalize(v) ==
    IF v = ZeroVector
    THEN ZeroVector
    ELSE LET g == Gcd(Gcd(Abs(v[1]), Abs(v[2])), Abs(v[3])) IN
         <<v[1] \div g, v[2] \div g, v[3] \div g>>

Coords == (0 - MaxDrag)..MaxDrag

\* points a pointer handler can record: on the surface of the Model or on a
\* view-facing plane
StartPoints == {<<x, y, 0>> : x \in Coords, y \in Coords}
EndPoints == {<<x, y, z>> : x \in Coords, y \in Coords, z \in Coords}

\* the camera's right axis for the camera looking along an axis of the scene
CameraRights == {<<1, 0, 0>>, <<0 - 1, 0, 0>>, <<0, 1, 0>>, <<0, 0 - 1, 0>>,
                 <<0, 0, 1>>, <<0, 0, 0 - 1>>}

\* centres of the Model's bounding box
ModelCenters == {<<c, 0, 0>> : c \in Shifts}

Models == 1..MaxLoads
\* pointer positions along the drag direction, in units of 0.1: the origin
\* and a point one minimum drag distance away from it
Points == {Origin, Origin + MinDragDistance}
Modes == {"View", "Cut", "Move"}

\* the two groups that the k-th successful cut puts into the scene
Part1Of(k) == <<k, 1>>
Part2Of(k) == <<k, 2>>

Range(s) == {s[i] : i \in DOMAIN s}

\* the sequence s without its i-th element
Without(s, i) == [j \in 1..(Len(s) - 1) |-> IF j < i THEN s[j] ELSE s[j + 1]]

VARIABLES
    editorModeRef,        \* editorModeRef.current
    editorMode,           \* Editor's useState editorMode (what the UI shows)
    cutCountRef,          \* cutCountRef.current
    isProcessingRef,      \* isProcessingRef.current
    modelRef,             \* modelRef.current (NoModel = null)
    modelLoaded,          \* useModelLoading's modelLoaded state
    pendingLoads,         \* loader.load calls whose callback has not run yet
    loadsIssued,          \* number of loadModel calls so far
    modelMeshes,          \* number of leaf meshes under modelRef.current
    sceneModels,          \* Model roots that are children of the scene
    sceneParts,           \* Part groups that are children of the scene
    objectPartsRef,       \* objectPartsRef.current
    selectedPartRef,      \* selectedPartRef.current (NoPart = null)
    originalMaterialsRef, \* originalMaterialsRef.current as a set of <<Part, material>>
    partMaterials,        \* child.material of every mesh of every current Part
    controlsEnabled,      \* controlsRef.current.enabled
    dragObjects,          \* objects handed to the live DragControls
    dragging,             \* the live DragControls holds a Part (between dragstart and dragend)
    error,                \* Editor's useState error (the banner)
    mouseStartPointRef,   \* mouseStartPointRef.current
    mouseEndPointRef,     \* mouseEndPointRef.current
    moveListener,         \* canvas has the mousemove listener attached
    helper,               \* cuttingPlaneHelperRef.current is in the scene
    chains,               \* split chains in flight, in the order they were started
    timers,               \* pending setTimeout callbacks
    lastOp,               \* observation: the handler that ran last and its outcome
    meshWorldMatrix,      \* processMesh: mesh.matrixWorld.clone()
    planeWorldMatrix,     \* processMesh: planeMesh.matrixWorld
    localPlaneMatrix,     \* processMesh: localPlaneMatrix (NoMatrix = not computed)
    startPoint,           \* the start point of a drag, in units of 0.1
    endPoint,             \* the end point of the drag
    cameraRight,          \* (1,0,0).applyQuaternion(camera.quaternion)
    modelCenter,          \* centre of the Model's bounding box
    previewPlane,         \* updateCuttingPlanePreview: cuttingPlane (NoPlane = not computed)
    cuttingPlane,         \* performCut: cuttingPlane (NoPlane = not computed)
    rootMatrix,           \* matrix of the Model root (scale and position set at load)
    parentMatrix,         \* matrix of the node between the root and the leaf mesh
    meshLocalMatrix,      \* mesh.matrix of the leaf mesh
    fragmentMatrixWorld,  \* world transform of the Fragment in its Part (NoMatrix = none)
    sourceMaterials,      \* mesh.material of every leaf mesh, in collection order
    materialCount,        \* number of material objects created so far
    part1Materials,       \* material of every Fragment of Part 1
    part2Materials,       \* material of every Fragment of Part 2
    originalSize,         \* finalizeGroupCut: originalSize, in units of 0.1
    part1Size,            \* finalizeGroupCut: part1Size
    part2Size,            \* finalizeGroupCut: part2Size
    part1Scale,           \* part1Group.scale as the square of its factor (NoScale = not set)
    part2Scale,           \* part2Group.scale as the square of its factor
    exportedPart,         \* the Part handed to exporter.parse last (NoPart = none)
    exportedMaterials     \* child.material of every mesh the exporter serialized

editorVars == <<editorModeRef, editorMode, cutCountRef, isProcessingRef, modelRef,
          modelLoaded, pendingLoads, loadsIssued, modelMeshes, sceneModels,
          sceneParts, objectPartsRef, selectedPartRef, originalMaterialsRef,
          partMaterials, controlsEnabled, dragObjects, dragging, error, mouseStartPointRef,
          mouseEndPointRef, moveListener, helper, chains, timers, lastOp>>

matrixVars == <<meshWorldMatrix, planeWorldMatrix, localPlaneMatrix>>
solverVars == <<startPoint, endPoint, cameraRight, modelCenter, previewPlane,
                cuttingPlane>>

\* the values of the geometric computations, which the editor actions above
\* them treat as opaque
transformVars == <<rootMatrix, parentMatrix, meshLocalMatrix, fragmentMatrixWorld>>
materialVars == <<sourceMaterials, materialCount, part1Materials, part2Materials>>
clampVars == <<originalSize, part1Size, part2Size, part1Scale, part2Scale>>
exportVars == <<exportedPart, exportedMaterials>>
frameVars == <<matrixVars, solverVars, transformVars, materialVars, clampVars,
               exportVars>>

vars == <<editorVars, frameVars>>

modeVars == <<editorModeRef, editorMode>>
loadVars == <<modelRef, modelLoaded, pendingLoads, loadsIssued, modelMeshes, sceneModels>>
partVars == <<sceneParts, objectPartsRef, cutCountRef>>
selVars == <<selectedPartRef, originalMaterialsRef, partMaterials>>
dragVars == <<dragObjects, dragging>>
pointVars == <<mouseStartPointRef, mouseEndPointRef, moveListener>>
chainVars == <<chains, isProcessingRef>>

\* ------------------------------------------------------- Editor component

\* variant of ControlsEffect: the camera controls are switched off in Move only
ControlsEffectMoveOnly(uiMode) == uiMode # "Move"

\* editor.tsx: useEffect(() => { controls.enabled = editorMode === View }, [editorMode])
ControlsEffect(uiMode) == uiMode = "View"

\* The effect above runs only when a handler changed the editorMode state;
\* otherwise the value the handler left in controls.enabled stands.
AfterRender(uiBefore, uiAfter, enabledByHandler) ==
    IF uiAfter # uiBefore THEN ControlsEffect(uiAfter) ELSE enabledByHandler

\* editor.tsx: <button id="cutButton" disabled={!modelLoaded}>
CutButtonEnabled == modelLoaded

\* editor.tsx: <button id="moveButton" disabled={objectPartsRef.current.length === 0}>
MoveButtonEnabled == Len(objectPartsRef) > 0

\* editor.tsx: <button id="downloadButton"
\*               disabled={!hasCutParts || editorMode !== EditorMode.Move}>
DownloadButtonEnabled == Len(objectPartsRef) > 0 /\ editorMode = "Move"

\* ------------------------------------------------------------------- Init
EditorInit ==
    /\ editorModeRef = "View"
    /\ editorMode = "View"
    /\ cutCountRef = 0
    /\ isProcessingRef = FALSE
    /\ modelRef = NoModel
    /\ modelLoaded = FALSE
    /\ pendingLoads = 0
    /\ loadsIssued = 0
    /\ modelMeshes = 0
    /\ sceneModels = {}
    /\ sceneParts = {}
    /\ objectPartsRef = <<>>
    /\ selectedPartRef = NoPart
    /\ originalMaterialsRef = {}
    /\ partMaterials = NoMaterials
    /\ controlsEnabled = TRUE
    /\ dragObjects = {}
    /\ dragging = FALSE
    /\ error = "None"
    /\ mouseStartPointRef = NoPoint
    /\ mouseEndPointRef = NoPoint
    /\ moveListener = FALSE
    /\ helper = FALSE
    /\ chains = <<>>
    /\ timers = {}
    /\ lastOp = "init"

\* no mesh is being processed: nothing was computed for the cutting plane
MatrixIdle ==
    /\ meshWorldMatrix = Identity
    /\ planeWorldMatrix = Identity
    /\ localPlaneMatrix = NoMatrix

\* no drag: no plane was derived
SolverIdle ==
    /\ startPoint = ZeroVector
    /\ endPoint = ZeroVector
    /\ cameraRight = UnitX
    /\ modelCenter = ZeroVector
    /\ previewPlane = NoPlane
    /\ cuttingPlane = NoPlane

\* no Fragment was placed
TransformIdle ==
    /\ rootMatrix = Identity
    /\ parentMatrix = Identity
    /\ meshLocalMatrix = Identity
    /\ fragmentMatrixWorld = NoMatrix

\* no Fragment was given a material
MaterialIdle ==
    /\ sourceMaterials = << >>
    /\ materialCount = 0
    /\ part1Materials = << >>
    /\ part2Materials = << >>

\* no Part was measured
ClampIdle ==
    /\ originalSize = ZeroVector
    /\ part1Size = ZeroVector
    /\ part2Size = ZeroVector
    /\ part1Scale = NoScale
    /\ part2Scale = NoScale

\* nothing was exported
ExportIdle ==
    /\ exportedPart = NoPart
    /\ exportedMaterials = << >>

FrameIdle ==
    /\ MatrixIdle /\ SolverIdle /\ TransformIdle /\ MaterialIdle /\ ClampIdle
    /\ ExportIdle

Init == EditorInit /\ FrameIdle

\* -------------------------------------------------------- useModelLoading

\* loadModel(file): drops the previous Model and starts an asynchronous load
LoadModel ==
    /\ loadsIssued < MaxLoads
    /\ loadsIssued' = loadsIssued + 1
    /\ pendingLoads' = pendingLoads + 1
    /\ sceneModels' = IF modelRef # NoModel THEN sceneModels \ {modelRef} ELSE sceneModels
    /\ modelRef' = NoModel
    /\ modelMeshes' = 0
    /\ lastOp' = "other"
    /\ UNCHANGED <<modeVars, partVars, selVars, dragVars, pointVars, chainVars,
                   modelLoaded, controlsEnabled, error, helper, timers>>
    /\ UNCHANGED frameVars

\* GLTFLoader success callback: the Model with the next identity enters the scene
LoadSuccess ==
    /\ pendingLoads > 0
    /\ \E n \in 0..MaxMeshes :
         LET m == loadsIssued - pendingLoads + 1 IN
         /\ modelMeshes' = n
         /\ sceneModels' = sceneModels \cup {m}
         /\ modelRef' = m
    /\ modelLoaded' = TRUE
    /\ pendingLoads' = pendingLoads - 1
    /\ lastOp' = "other"
    /\ UNCHANGED <<modeVars, partVars, selVars, dragVars, pointVars, chainVars,
                   loadsIssued, controlsEnabled, error, helper, timers>>
    /\ UNCHANGED frameVars

\* ------------------------------------------------------ setupDragControls

\* setupDragControls(objects): the previous DragControls is disposed (an
\* active drag of it never reports dragend) and a new one takes the objects
DragObjectsAfterSetup(objects) == Range(objects)

\* DragControls "dragstart" listener
DragStart ==
    /\ ~dragging
    /\ dragObjects # {}
    /\ dragging' = TRUE
    /\ controlsEnabled' = FALSE
    /\ lastOp' = "other"
    /\ UNCHANGED <<modeVars, loadVars, partVars, selVars, pointVars, chainVars,
                   dragObjects, error, helper, timers>>
    /\ UNCHANGED frameVars

\* DragControls "dragend" listener
DragEnd ==
    /\ dragging
    /\ dragging' = FALSE
    /\ controlsEnabled' = TRUE
    /\ lastOp' = "other"
    /\ UNCHANGED <<modeVars, loadVars, partVars, selVars, pointVars, chainVars,
                   dragObjects, error, helper, timers>>
    /\ UNCHANGED frameVars

\* ------------------------------------------------------- toggleEditorMode

\* variant of ToggleRejectsCut: the rejection starts one cut too late
ToggleRejectsCutLate(mode, count) == mode = "Cut" /\ count > 1

\* if (mode === EditorMode.Cut && cutCountRef.current > 0)
ToggleRejectsCut(mode, count) == mode = "Cut" /\ count > 0

\* controlsRef.current.enabled = mode === EditorMode.View
ToggleControlsEnabled(mode) == mode = "View"

\* the button of the mode is enabled in the rendered Editor
ButtonEnabled(mode) ==
    CASE mode = "View" -> TRUE
      [] mode = "Cut" -> CutButtonEnabled
      [] mode = "Move" -> MoveButtonEnabled

ToggleEditorMode(mode) ==
    /\ ButtonEnabled(mode)
    /\ helper' = IF editorModeRef = "Cut" /\ mode # "Cut" THEN FALSE ELSE helper
    /\ IF ToggleRejectsCut(mode, cutCountRef)
       THEN /\ error' = "OneCutOnlyUseReset"
            /\ editorModeRef' = "Move"
            /\ editorMode' = "Move"
            /\ IF Len(objectPartsRef) > 0
               THEN /\ dragObjects' = DragObjectsAfterSetup(objectPartsRef)
                    /\ dragging' = FALSE
               ELSE UNCHANGED dragVars
            /\ controlsEnabled' = AfterRender(editorMode, "Move", controlsEnabled)
       ELSE /\ editorModeRef' = mode
            /\ editorMode' = mode
            /\ controlsEnabled' = AfterRender(editorMode, mode, ToggleControlsEnabled(mode))
            /\ IF mode = "Move" /\ Len(objectPartsRef) > 0
               THEN /\ dragObjects' = DragObjectsAfterSetup(objectPartsRef)
                    /\ dragging' = FALSE
               ELSE UNCHANGED dragVars
            /\ UNCHANGED error
    /\ lastOp' = IF mode = "Cut" THEN "toggleCut" ELSE "other"
    /\ UNCHANGED <<loadVars, partVars, selVars, pointVars, chainVars, timers>>
    /\ UNCHANGED frameVars

\* -------------------------------------------------------------- performCut

\* startPoint.distanceTo(endPoint), in units of 0.1
Distance(a, b) == IF a >= b THEN a - b ELSE b - a

\* variant of Busy: the processing flag is not consulted
BusyNever(flag) == FALSE

\* the re-entrancy test of performCut: isProcessingRef.current
Busy(flag) == flag

\* the one-shot test of performCut: cutCountRef.current > 0
AlreadyCut(count) == count > 0

\* which return of performCut is taken, in the order of the code
PerformCutOutcome ==
    IF editorModeRef # "Cut" THEN "notInCutMode"
    ELSE IF modelRef = NoModel \/ Busy(isProcessingRef)
         THEN IF isProcessingRef THEN "alreadyProcessing" ELSE "missingRef"
    ELSE IF mouseStartPointRef = NoPoint \/ mouseEndPointRef = NoPoint THEN "invalidPoints"
    ELSE IF Distance(mouseStartPointRef, mouseEndPointRef) < MinDragDistance THEN "tooClose"
    ELSE IF AlreadyCut(cutCountRef) THEN "oneCutOnly"
    ELSE "started"

\* a chain just scheduled with requestAnimationFrame
NewChain == [pc |-> "raf", total |-> 0, index |-> 0,
             n1 |-> 0, n2 |-> 0, solid1 |-> FALSE, solid2 |-> FALSE,
             src |-> NoModel]

\* performCut(): changes error, editorMode, controlsEnabled and chainVars
PerformCut ==
    LET o == PerformCutOutcome IN
    /\ o = "started" => Len(chains) < MaxChains
    /\ error' = CASE o = "alreadyProcessing" -> "AlreadyProcessing"
                  [] o = "missingRef" -> "MissingRef"
                  [] o = "invalidPoints" -> "InvalidCuttingPoints"
                  [] o = "oneCutOnly" -> "OneCutOnly"
                  [] o = "started" -> "Processing"
                  [] OTHER -> error
    /\ editorMode' = IF o = "oneCutOnly" THEN "Move" ELSE editorMode
    /\ controlsEnabled' = AfterRender(editorMode, editorMode', controlsEnabled)
    /\ isProcessingRef' = IF o = "started" THEN TRUE ELSE isProcessingRef
    /\ chains' = IF o = "started" THEN Append(chains, NewChain) ELSE chains
    /\ UNCHANGED <<editorModeRef, loadVars, partVars, selVars, dragVars, helper, timers>>

\* performCut() called through the API the hook returns
PerformCutCall ==
    /\ PerformCut
    /\ lastOp' = "performCut"
    /\ UNCHANGED pointVars
    /\ UNCHANGED frameVars

\* ---------------------------------------------------------- pointer input

\* what the raycast of a pointer handler finds: the Model, the fallback
\* plane, or nothing (intersectPlane returns null and leaves the target)
RayResults == [hit : {"mesh", "plane", "none"}, pt : Points]

RecordedPoint(r) == IF r.hit = "none" THEN Origin ELSE r.pt

\* the points a pointer handler can record
RecordedPoints == {RecordedPoint(r) : r \in RayResults}

\* handleMouseDown; outside Cut mode it returns at once
HandleMouseDown ==
    /\ editorModeRef = "Cut"
    /\ IF modelRef = NoModel
       THEN \* raycaster.intersectObject(null) throws before anything is set
            /\ lastOp' = "mousedown:threw"
            /\ UNCHANGED pointVars
       ELSE /\ \E r \in RayResults :
                 /\ mouseStartPointRef' = RecordedPoint(r)
                 /\ lastOp' = IF r.hit = "none" THEN "mousedown:miss" ELSE "mousedown"
            /\ moveListener' = TRUE
            /\ UNCHANGED mouseEndPointRef
    /\ UNCHANGED <<modeVars, loadVars, partVars, selVars, dragVars, chainVars,
                   controlsEnabled, error, helper, timers>>
    /\ UNCHANGED frameVars

\* handleMouseMove with updateCuttingPlanePreview
HandleMouseMove ==
    /\ moveListener
    /\ editorModeRef = "Cut" /\ mouseStartPointRef # NoPoint
    /\ IF modelRef = NoModel
       THEN /\ lastOp' = "other"
            /\ UNCHANGED <<mouseEndPointRef, helper>>
       ELSE /\ \E p \in RecordedPoints : mouseEndPointRef' = p
            /\ helper' = TRUE
            /\ lastOp' = "other"
    /\ UNCHANGED <<modeVars, loadVars, partVars, selVars, dragVars, chainVars,
                   controlsEnabled, error, mouseStartPointRef, moveListener, timers>>
    /\ UNCHANGED frameVars

\* handleMouseUp in Cut mode; confirmCut is the answer to window.confirm
HandleMouseUp(confirmCut) ==
    /\ editorModeRef = "Cut"
    /\ moveListener' = FALSE
    /\ UNCHANGED <<mouseStartPointRef, mouseEndPointRef>>
    /\ IF mouseStartPointRef = NoPoint \/ mouseEndPointRef = NoPoint
       THEN /\ error' = "InvalidCuttingPoints"
            /\ lastOp' = "mouseup:invalid"
            /\ UNCHANGED <<modeVars, loadVars, partVars, selVars, dragVars,
                           chainVars, controlsEnabled, helper, timers>>
       ELSE IF confirmCut
            THEN /\ PerformCut
                 /\ lastOp' = "mouseup:confirmed"
            ELSE /\ lastOp' = "other"
                 /\ UNCHANGED <<modeVars, loadVars, partVars, selVars, dragVars,
                                chainVars, controlsEnabled, error, helper, timers>>
    /\ UNCHANGED frameVars

\* handleMouseUp outside Cut mode: it returns at its first statement and
\* changes nothing; only the observation records that the pointer-up happened
HandleMouseUpOutsideCut ==
    /\ editorModeRef # "Cut"
    /\ lastOp' = "mouseup:ignored"
    /\ UNCHANGED <<modeVars, loadVars, partVars, selVars, dragVars, pointVars,
                   chainVars, controlsEnabled, error, helper, timers>>
    /\ UNCHANGED frameVars

\* ------------------------------------------------------------ split chain

\* how the evaluation of one mesh ends: the plane crosses the mesh and both
\* results have geometry ("split"), the mesh lies wholly on one side and the
\* result of the other side has no vertices ("empty1", "empty2"), or an
\* exception is thrown
MeshOutcomes == {"split", "empty1", "empty2", "threw"}

\* variant of AfterMesh: the callback goes through all remaining meshes in
\* one synchronous pass
AfterMeshAllAtOnce(ch, outcome) ==
    [ch EXCEPT !.pc = "frame",
               !.index = ch.total,
               !.n1 = IF outcome # "threw" THEN ch.n1 + (ch.total - ch.index) ELSE ch.n1,
               !.n2 = IF outcome # "threw" THEN ch.n2 + (ch.total - ch.index) ELSE ch.n2,
               !.solid1 = ch.solid1 \/ outcome \in {"split", "empty2"},
               !.solid2 = ch.solid2 \/ outcome \in {"split", "empty1"}]

\* variant of AfterMesh: a result without geometry is not added to its group
AfterMeshSkipsEmpty(ch, outcome) ==
    [ch EXCEPT !.pc = "frame",
               !.index = ch.index + 1,
               !.n1 = IF outcome \in {"split", "empty2"} THEN ch.n1 + 1 ELSE ch.n1,
               !.n2 = IF outcome \in {"split", "empty1"} THEN ch.n2 + 1 ELSE ch.n2,
               !.solid1 = ch.solid1 \/ outcome \in {"split", "empty2"},
               !.solid2 = ch.solid2 \/ outcome \in {"split", "empty1"}]

\* variant of AfterMesh: a mesh whose evaluation throws ends the chain's
\* progress, the index stays where it is
AfterMeshStopsOnThrow(ch, outcome) ==
    [ch EXCEPT !.pc = "frame",
               !.index = IF outcome # "threw" THEN ch.index + 1 ELSE ch.index,
               !.n1 = IF outcome # "threw" THEN ch.n1 + 1 ELSE ch.n1,
               !.n2 = IF outcome # "threw" THEN ch.n2 + 1 ELSE ch.n2,
               !.solid1 = ch.solid1 \/ outcome \in {"split", "empty2"},
               !.solid2 = ch.solid2 \/ outcome \in {"split", "empty1"}]

\* processMesh(index) for index < totalMeshes: unless the evaluation throws,
\* the two result meshes are added to their groups whatever their geometry;
\* solid1 / solid2 record that a group holds a Fragment with geometry
AfterMesh(ch, outcome) ==
    [ch EXCEPT !.pc = "frame",
               !.index = ch.index + 1,
               !.n1 = IF outcome # "threw" THEN ch.n1 + 1 ELSE ch.n1,
               !.n2 = IF outcome # "threw" THEN ch.n2 + 1 ELSE ch.n2,
               !.solid1 = ch.solid1 \/ outcome \in {"split", "empty2"},
               !.solid2 = ch.solid2 \/ outcome \in {"split", "empty1"}]

\* the requestAnimationFrame callback of performCut: arms the 100 ms timer
ChainAnimationFrame(i) ==
    /\ chains[i].pc = "raf"
    /\ chains' = [chains EXCEPT ![i].pc = "timeout"]
    /\ lastOp' = "other"
    /\ UNCHANGED <<modeVars, loadVars, partVars, selVars, dragVars, pointVars,
                   isProcessingRef, controlsEnabled, error, helper, timers>>
    /\ UNCHANGED frameVars

\* the setTimeout callback of performCut: collects the meshes of the
\* current Model and runs processMesh(0)
ChainTimeout(i) ==
    /\ chains[i].pc = "timeout"
    /\ IF modelRef = NoModel
       THEN \* modelRef.current!.traverse throws; caught by the outer catch
            /\ chains' = Without(chains, i)
            /\ error' = "FailedToCut"
            /\ isProcessingRef' = FALSE
            /\ lastOp' = "chain:failedToCut"
       ELSE IF modelMeshes = 0
       THEN /\ chains' = Without(chains, i)
            /\ error' = "NoValidMeshes"
            /\ isProcessingRef' = FALSE
            /\ lastOp' = "chain:noMeshes"
       ELSE \E outcome \in MeshOutcomes :
            /\ chains' = [chains EXCEPT ![i] =
                 AfterMesh([@ EXCEPT !.total = modelMeshes, !.src = modelRef],
                           outcome)]
            /\ error' = IF outcome # "threw" THEN "Progress" ELSE error
            /\ lastOp' = "other"
            /\ UNCHANGED isProcessingRef
    /\ UNCHANGED <<modeVars, loadVars, partVars, selVars, dragVars, pointVars,
                   controlsEnabled, helper, timers>>
    /\ UNCHANGED frameVars

\* a later requestAnimationFrame callback with index < totalMeshes
ChainMesh(i) ==
    /\ chains[i].pc = "frame" /\ chains[i].index < chains[i].total
    /\ \E outcome \in MeshOutcomes :
         /\ chains' = [chains EXCEPT ![i] = AfterMesh(@, outcome)]
         /\ error' = IF outcome # "threw" THEN "Progress" ELSE error
         /\ lastOp' = "other"
    /\ UNCHANGED <<modeVars, loadVars, partVars, selVars, dragVars, pointVars,
                   isProcessingRef, controlsEnabled, helper, timers>>
    /\ UNCHANGED frameVars

\* --------------------------------------------------------- finalizeGroupCut

\* how the statements between the removal of the Model and the insertion of
\* the Parts end: the sweep that removes marked meshes from the scene while
\* traversing it, the bounding boxes, the separation and the oversize clamp
\* run inside the try block, and an exception of any of them reaches the catch
AssemblyOutcomes == {"done", "threw"}

\* which exit of the try block finalizeGroupCut takes
FinalizeOutcome(ch, assembly) ==
    IF modelRef = NoModel THEN "missingRef"
    ELSE IF ch.n1 = 0 \/ ch.n2 = 0 THEN "partEmpty"
    ELSE IF assembly = "threw" THEN "assemblyThrew"
    ELSE "success"

\* variant of RemovedBeforeExit: the emptiness check comes after the removal
RemovedBeforeCheck(o) == o \in {"partEmpty", "assemblyThrew", "success"}

\* the old Parts and the Model have left the scene when the try block exits
\* with o: the removal follows the two checks and precedes everything else
RemovedBeforeExit(o) == o \in {"assemblyThrew", "success"}

\* variant of CountAfterCut: the counter is not incremented
CountNotIncremented(count) == count

\* cutCountRef.current++
CountAfterCut(count) == count + 1

\* the statements of the try block up to the exit o
FinalizeTry(ch, o) ==
    /\ sceneModels' = IF RemovedBeforeExit(o) THEN sceneModels \ {modelRef} ELSE sceneModels
    /\ IF o = "success"
       THEN LET k == CountAfterCut(cutCountRef) IN
            /\ sceneParts' = (sceneParts \ Range(objectPartsRef))
                                \cup {Part1Of(k), Part2Of(k)}
            /\ objectPartsRef' = <<Part1Of(k), Part2Of(k)>>
            /\ cutCountRef' = k
            /\ dragObjects' = DragObjectsAfterSetup(objectPartsRef')
            /\ dragging' = FALSE
            /\ selectedPartRef' = NoPart
            /\ originalMaterialsRef' = {}
            /\ partMaterials' = [p \in {Part1Of(k), Part2Of(k)} |->
                                   [j \in 1..ch.n1 |-> OwnMaterial(j)]]
            /\ timers' = timers \cup {"cutComplete"}
       ELSE /\ sceneParts' = IF RemovedBeforeExit(o)
                             THEN sceneParts \ Range(objectPartsRef) ELSE sceneParts
            /\ objectPartsRef' = IF RemovedBeforeExit(o) THEN <<>> ELSE objectPartsRef
            /\ partMaterials' = IF RemovedBeforeExit(o) THEN NoMaterials ELSE partMaterials
            /\ UNCHANGED <<cutCountRef, selectedPartRef, originalMaterialsRef,
                           dragVars, timers>>

\* variant of FlagAfterFinalize: the catch block leaves the flag alone
FlagKeptAfterFinalize(o, flag) == flag

\* isProcessingRef.current when finalizeGroupCut returns: the catch block
\* clears it, the success path leaves it to the 300 ms timer
FlagAfterFinalize(o, flag) == IF o = "success" THEN flag ELSE FALSE

\* variant of ModeRefAfterFinalize: only the setEditorMode(Move) of
\* finalizeGroupCut runs, the ref is left alone
ModeRefKeptAfterFinalize(ref) == ref

\* editorModeRef.current = EditorMode.Move after finalizeGroupCut returned
ModeRefAfterFinalize(ref) == "Move"

\* processMesh(index) with index >= totalMeshes: finalizeGroupCut, then the
\* plane helper is removed and the mode is switched
ChainFinalize(i) ==
    /\ chains[i].pc = "frame" /\ chains[i].index >= chains[i].total
    /\ \E assembly \in AssemblyOutcomes :
         LET ch == chains[i]
             o == FinalizeOutcome(ch, assembly) IN
         /\ assembly = "threw" => o = "assemblyThrew"
         /\ FinalizeTry(ch, o)
         /\ isProcessingRef' = FlagAfterFinalize(o, isProcessingRef)
         /\ error' = IF o = "success" THEN error ELSE "CutFailed"
         /\ editorModeRef' = ModeRefAfterFinalize(editorModeRef)
         /\ editorMode' = "Move"
         /\ controlsEnabled' = AfterRender(editorMode, editorMode', controlsEnabled)
         /\ lastOp' = "finalize:" \o o
    /\ chains' = Without(chains, i)
    /\ helper' = FALSE
    /\ UNCHANGED <<modelRef, modelLoaded, pendingLoads, loadsIssued, modelMeshes,
                   pointVars>>
    /\ UNCHANGED frameVars

\* setTimeout(..., 300) of a successful finalizeGroupCut
TimerCutComplete ==
    /\ "cutComplete" \in timers
    /\ isProcessingRef' = FALSE
    /\ error' = "CutComplete"
    /\ timers' = (timers \ {"cutComplete"}) \cup {"clearMessage"}
    /\ lastOp' = "other"
    /\ UNCHANGED <<modeVars, loadVars, partVars, selVars, dragVars, pointVars,
                   chains, controlsEnabled, helper>>
    /\ UNCHANGED frameVars

\* setTimeout(() => setError(null), 3000)
TimerClearMessage ==
    /\ "clearMessage" \in timers
    /\ error' = "None"
    /\ timers' = timers \ {"clearMessage"}
    /\ lastOp' = "other"
    /\ UNCHANGED <<modeVars, loadVars, partVars, selVars, dragVars, pointVars,
                   chainVars, controlsEnabled, helper>>
    /\ UNCHANGED frameVars

\* --------------------------------------------------------- handleModelClick

\* the document click listener is attached in Move mode after a cut
ClickListenerAttached == editorModeRef = "Move" /\ cutCountRef > 0

\* variant of HasSaved: the saved-materials map is never found to hold a Part
HasSavedNever(saved, part) == FALSE

\* originalMaterialsRef.current.has(part)
HasSaved(saved, part) == \E e \in saved : e[1] = part

\* originalMaterialsRef.current.get(part)
SavedOf(saved, part) == (CHOOSE e \in saved : e[1] = part)[2]

\* "Reset previously selected part color if any": every mesh of the Part gets
\* a clone of the one material saved for the Part
RestoreSelected(materials, saved, selected) ==
    IF selected # NoPart /\ HasSaved(saved, selected)
    THEN [materials EXCEPT ![selected] =
            [j \in DOMAIN @ |-> CloneOf(SavedOf(saved, selected))]]
    ELSE materials

\* "Store original materials if not already stored": the traversal writes the
\* material of each mesh under the same key, so the last mesh's stays
SaveOriginal(materials, saved, part) ==
    IF HasSaved(saved, part) THEN saved
    ELSE saved \cup {<<part, materials[part][Len(materials[part])]>>}

\* "Apply blue material to highlight"
ApplyHighlight(materials, part) ==
    [materials EXCEPT ![part] = [j \in DOMAIN @ |-> Highlight]]

\* handleModelClick: hit is the Part under the pointer, or NoPart
HandleModelClick(hit) ==
    /\ ClickListenerAttached
    /\ hit \in Range(objectPartsRef) \cup {NoPart}
    /\ LET restored == RestoreSelected(partMaterials, originalMaterialsRef,
                                       selectedPartRef) IN
       IF hit # NoPart
       THEN /\ selectedPartRef' = hit
            /\ originalMaterialsRef' = SaveOriginal(restored, originalMaterialsRef, hit)
            /\ partMaterials' = ApplyHighlight(restored, hit)
       ELSE /\ selectedPartRef' = NoPart
            /\ partMaterials' = restored
            /\ UNCHANGED originalMaterialsRef
    /\ lastOp' = "other"
    /\ UNCHANGED <<modeVars, loadVars, partVars, dragVars, pointVars, chainVars,
                   controlsEnabled, error, helper, timers>>
    /\ UNCHANGED frameVars

\* ------------------------------------------------------- exportSelectedPart

\* variant of NothingSelected: the selection is not tested
NothingSelectedNever(selected) == FALSE

\* if (!selectedPartRef.current)
NothingSelected(selected) == selected = NoPart

\* how exporter.parse ends synchronously: the serialization is under way, or
\* an exception reaches the catch block
ParseOutcomes == {"parsing", "threw"}

\* exporter.parse(selectedPartRef.current, ...): the exporter walks the Part
\* and writes the material each mesh carries at that moment
Serialized(materials, part) == materials[part]

\* exportSelectedPart, the click handler of the download button
ExportSelectedPart ==
    /\ DownloadButtonEnabled
    /\ IF NothingSelected(selectedPartRef)
       THEN /\ error' = "NoPartSelected"
            /\ lastOp' = "export:noSelection"
            /\ UNCHANGED <<timers, exportVars>>
       ELSE \E o \in ParseOutcomes :
            /\ error' = IF o = "threw" THEN "ExportFailed" ELSE error
            /\ timers' = IF o = "parsing" THEN timers \cup {"exportParse"} ELSE timers
            /\ exportedPart' = IF o = "parsing" THEN selectedPartRef ELSE NoPart
            /\ exportedMaterials' = IF o = "parsing"
                                    THEN Serialized(partMaterials, selectedPartRef)
                                    ELSE << >>
            /\ lastOp' = "export:started"
    /\ UNCHANGED <<modeVars, loadVars, partVars, selVars, dragVars, pointVars,
                   chainVars, controlsEnabled, helper>>
    /\ UNCHANGED <<matrixVars, solverVars, transformVars, materialVars, clampVars>>

\* the onDone / onError callback of exporter.parse: the blob is made and the
\* download link clicked, or the failure is reported
ExportParsed(done) ==
    /\ "exportParse" \in timers
    /\ IF done
       THEN /\ timers' = (timers \ {"exportParse"}) \cup {"exportRevoke"}
            /\ UNCHANGED error
       ELSE /\ timers' = timers \ {"exportParse"}
            /\ error' = "ExportFailed"
    /\ lastOp' = "other"
    /\ UNCHANGED <<modeVars, loadVars, partVars, selVars, dragVars, pointVars,
                   chainVars, controlsEnabled, helper>>
    /\ UNCHANGED frameVars

\* setTimeout(..., 100) of the export: revokes the URL and reports success
TimerExportRevoke ==
    /\ "exportRevoke" \in timers
    /\ error' = "Exported"
    /\ timers' = (timers \ {"exportRevoke"}) \cup {"clearMessage"}
    /\ lastOp' = "other"
    /\ UNCHANGED <<modeVars, loadVars, partVars, selVars, dragVars, pointVars,
                   chainVars, controlsEnabled, helper>>
    /\ UNCHANGED frameVars

AllParts == {Part1Of(k) : k \in 1..MaxChains} \cup {Part2Of(k) : k \in 1..MaxChains}

Next ==
    \/ LoadModel \/ LoadSuccess
    \/ DragStart \/ DragEnd
    \/ \E mode \in Modes : ToggleEditorMode(mode)
    \/ PerformCutCall
    \/ HandleMouseDown \/ HandleMouseMove
    \/ \E confirmCut \in BOOLEAN : HandleMouseUp(confirmCut)
    \/ \E i \in DOMAIN chains : ChainAnimationFrame(i)
    \/ \E i \in DOMAIN chains : ChainTimeout(i)
    \/ \E i \in DOMAIN chains : ChainMesh(i)
    \/ \E i \in DOMAIN chains : ChainFinalize(i)
    \/ TimerCutComplete \/ TimerClearMessage
    \/ \E hit \in AllParts \cup {NoPart} : HandleModelClick(hit)

Spec == Init /\ [][Next]_vars

\* ------------------------------------------- selection and export after a cut

\* the state in which the commit of a cut leaves the editor: one Model with
\* n meshes was loaded, the line was dragged from the origin in Cut mode and
\* confirmed, every mesh was split and finalizeGroupCut has just succeeded
Committed(n) ==
    /\ editorModeRef = "Move"
    /\ editorMode = "Move"
    /\ cutCountRef = 1
    /\ isProcessingRef = TRUE
    /\ modelRef = 1
    /\ modelLoaded = TRUE
    /\ pendingLoads = 0
    /\ loadsIssued = 1
    /\ modelMeshes = n
    /\ sceneModels = {}
    /\ sceneParts = {Part1Of(1), Part2Of(1)}
    /\ objectPartsRef = <<Part1Of(1), Part2Of(1)>>
    /\ selectedPartRef = NoPart
    /\ originalMaterialsRef = {}
    /\ partMaterials = [p \in {Part1Of(1), Part2Of(1)} |->
                          [j \in 1..n |-> OwnMaterial(j)]]
    /\ controlsEnabled = FALSE
    /\ dragObjects = {Part1Of(1), Part2Of(1)}
    /\ dragging = FALSE
    /\ error = "Progress"
    /\ mouseStartPointRef = Origin
    /\ mouseEndPointRef = Origin + MinDragDistance
    /\ moveListener = FALSE
    /\ helper = FALSE
    /\ chains = << >>
    /\ timers = {"cutComplete"}
    /\ lastOp = "finalize:success"

InitExport == FrameIdle /\ \E n \in 1..MaxMeshes : Committed(n)

\* what the user and the timers can do with the Parts: switch between the
\* modes, drag, select, export
NextExport ==
    \/ \E mode \in Modes : ToggleEditorMode(mode)
    \/ DragStart \/ DragEnd
    \/ \E hit \in AllParts \cup {NoPart} : HandleModelClick(hit)
    \/ ExportSelectedPart
    \/ \E done \in BOOLEAN : ExportParsed(done)
    \/ TimerExportRevoke
    \/ TimerCutComplete \/ TimerClearMessage

SpecExport == InitExport /\ [][NextExport]_vars

\* ------------------------------------- processMesh: the plane in mesh space
\* const meshMatrixInverse = new THREE.Matrix4().copy(meshWorldMatrix).invert();
\* const localPlaneMatrix = planeMesh.matrixWorld.clone().multiply(meshMatrixInverse);
LocalPlaneMatrix(planeMatrixWorld, meshMatrix) ==
    Multiply(planeMatrixWorld, Invert(meshMatrix))

\* processMesh up to the pre-transformed cutting geometry, for one leaf mesh
ProcessMeshPlane ==
    /\ localPlaneMatrix = NoMatrix
    /\ localPlaneMatrix' = LocalPlaneMatrix(planeWorldMatrix, meshWorldMatrix)
    /\ UNCHANGED <<meshWorldMatrix, planeWorldMatrix, editorVars, solverVars,
                   transformVars, materialVars, clampVars,
                   exportVars>>

\* a leaf mesh anywhere in the scene and a cutting plane of any orientation
\* through any centre
InitFrame ==
    /\ EditorInit
    /\ meshWorldMatrix \in WorldMatrices
    /\ planeWorldMatrix \in WorldMatrices
    /\ localPlaneMatrix = NoMatrix
    /\ SolverIdle /\ TransformIdle /\ MaterialIdle /\ ClampIdle /\ ExportIdle

NextFrame == ProcessMeshPlane

SpecFrame == InitFrame /\ [][NextFrame]_vars

\* ----------------------------------------------------- cutting plane solver
\* variant of CutNormal: the operands of the cross product are swapped
CutNormalSwapped(start, end, right) ==
    Normalize(CrossVectors(right, SubVectors(end, start)))

\* performCut: dragVector = end - start;
\* planeNormal = crossVectors(dragVector, cameraRight).normalize()
CutNormal(start, end, right) ==
    Normalize(CrossVectors(SubVectors(end, start), right))

\* updateCuttingPlanePreview: the same two statements
PreviewNormal(start, end, right) ==
    Normalize(CrossVectors(SubVectors(end, start), right))

\* Plane.setFromNormalAndCoplanarPoint(normal, point)
SetFromNormalAndCoplanarPoint(normal, point) ==
    [normal |-> normal, point |-> point]

\* updateCuttingPlanePreview(startPoint, endPoint), called by handleMouseMove
\* with the end point it recorded
UpdateCuttingPlanePreview ==
    /\ previewPlane = NoPlane
    /\ previewPlane' = SetFromNormalAndCoplanarPoint(
                          PreviewNormal(startPoint, endPoint, cameraRight), modelCenter)
    /\ UNCHANGED <<startPoint, endPoint, cameraRight, modelCenter, cuttingPlane,
                   matrixVars, editorVars, transformVars, materialVars, clampVars,
                   exportVars>>

\* performCut from the distance test to the plane it hands to the chain
PerformCutPlane ==
    /\ cuttingPlane = NoPlane
    /\ DistanceToSquared(startPoint, endPoint) >= MinDragDistance * MinDragDistance
    /\ cuttingPlane' = SetFromNormalAndCoplanarPoint(
                          CutNormal(startPoint, endPoint, cameraRight), modelCenter)
    /\ UNCHANGED <<startPoint, endPoint, cameraRight, modelCenter, previewPlane,
                   matrixVars, editorVars, transformVars, materialVars, clampVars,
                   exportVars>>

\* a drag between any two points, seen by any camera, over any Model
InitSolver ==
    /\ EditorInit
    /\ MatrixIdle /\ TransformIdle /\ MaterialIdle /\ ClampIdle /\ ExportIdle
    /\ startPoint \in StartPoints
    /\ endPoint \in EndPoints
    /\ cameraRight \in CameraRights
    /\ modelCenter \in ModelCenters
    /\ previewPlane = NoPlane
    /\ cuttingPlane = NoPlane

NextSolver == UpdateCuttingPlanePreview \/ PerformCutPlane

SpecSolver == InitSolver /\ [][NextSolver]_vars

\* ------------------------------------------------- placing the Fragments
\* Model roots as loadModel leaves them: model.scale.set(scale, scale, scale)
\* and model.position = -center * scale
RootScales == {1, 2}
RootMatrices ==
    {MultiplyMatrices(Translation(x, y), Scaling(s)) :
        x \in Shifts, y \in Shifts, s \in RootScales}

\* matrices of a node between the root and the leaf (the identity among them)
ParentMatrices == {Compose(x, 0, k) : x \in Shifts, k \in Turns}

\* mesh.matrixWorld of the leaf: the product of the matrices on its path
LeafMatrixWorld(root, parent, mesh) ==
    MultiplyMatrices(MultiplyMatrices(root, parent), mesh)

\* the matrix of a Part group when finalizeGroupCut measures and inserts it:
\* position.set(0, 0, 0); matrix.copy(modelRef.current.matrix);
\* matrixAutoUpdate = false; matrixAutoUpdate = true.  With matrixAutoUpdate
\* set, the next updateMatrix composes the matrix anew from the group's
\* position, quaternion and scale, which are the defaults
GroupMatrix(modelMatrix, matrixAutoUpdate) ==
    IF matrixAutoUpdate THEN Compose(0, 0, 0) ELSE modelMatrix

\* the Fragment in its group in the scene: part.matrix.copy(mesh.matrix),
\* part.matrixAutoUpdate = false, partGroup.add(part), scene.add(partGroup)
FragmentMatrixWorld(root, mesh) ==
    MultiplyMatrices(GroupMatrix(root, TRUE), mesh)

\* processMesh and finalizeGroupCut up to the separation, for one leaf mesh
PlaceFragment ==
    /\ fragmentMatrixWorld = NoMatrix
    /\ fragmentMatrixWorld' = FragmentMatrixWorld(rootMatrix, meshLocalMatrix)
    /\ UNCHANGED <<rootMatrix, parentMatrix, meshLocalMatrix, editorVars, matrixVars,
                   solverVars, materialVars, clampVars,
                   exportVars>>

\* a leaf mesh directly under the root or one level deeper
InitTransform ==
    /\ EditorInit
    /\ MatrixIdle /\ SolverIdle /\ MaterialIdle /\ ClampIdle /\ ExportIdle
    /\ rootMatrix \in RootMatrices
    /\ parentMatrix \in ParentMatrices
    /\ meshLocalMatrix \in WorldMatrices
    /\ fragmentMatrixWorld = NoMatrix

NextTransform == PlaceFragment

SpecTransform == InitTransform /\ [][NextTransform]_vars

\* ------------------------------------------------ materials of the Fragments
\* A material object is known by the number it got when it was created.
\* mesh.material is one material or an array of materials.
SourceMaterialIds == 1..MaxMeshes

MaterialValues ==
    {[array |-> FALSE, mats |-> <<m>>] : m \in SourceMaterialIds}
      \cup {[array |-> TRUE, mats |-> <<m>>] : m \in SourceMaterialIds}
      \cup {[array |-> TRUE, mats |-> <<m, n>>] :
               m \in SourceMaterialIds, n \in SourceMaterialIds}

\* variant of CloneMaterial: the Fragment is given the material it was asked
\* to copy
ShareMaterial(material, count) == material

\* cloneMaterial(material): material.map((mat) => mat.clone()) for an array,
\* material.clone() otherwise; every clone is a new object, the count-th
\* object having been the last one created before
CloneMaterial(material, count) ==
    [array |-> material.array,
     mats |-> [j \in 1..Len(material.mats) |-> count + j]]

\* processMesh(index): new THREE.Mesh(part1Brush.geometry, cloneMaterial(mesh.material))
\* and the same for part2
ProcessMeshMaterials ==
    /\ Len(part1Materials) < Len(sourceMaterials)
    /\ LET mesh == sourceMaterials[Len(part1Materials) + 1]
           first == CloneMaterial(mesh, materialCount)
           second == CloneMaterial(mesh, materialCount + Len(mesh.mats)) IN
       /\ part1Materials' = Append(part1Materials, first)
       /\ part2Materials' = Append(part2Materials, second)
       /\ materialCount' = materialCount + 2 * Len(mesh.mats)
    /\ UNCHANGED <<sourceMaterials, editorVars, matrixVars, solverVars,
                   transformVars, clampVars,
                   exportVars>>

\* Models of one mesh up to MaxMeshes meshes, which may share materials
MeshMaterials(n) == [1..n -> MaterialValues]

InitMaterial ==
    /\ EditorInit
    /\ MatrixIdle /\ SolverIdle /\ TransformIdle /\ ClampIdle /\ ExportIdle
    /\ \E n \in 1..MaxMeshes : sourceMaterials \in MeshMaterials(n)
    /\ materialCount = MaxMeshes
    /\ part1Materials = << >>
    /\ part2Materials = << >>

NextMaterial == ProcessMeshMaterials

SpecMaterial == InitMaterial /\ [][NextMaterial]_vars

\* ---------------------------------------------------------- oversized Parts
\* sizes of bounding boxes: Box3.getSize, no component negative
Sizes == {<<x, y, z>> : x \in 0..MaxSize, y \in 0..MaxSize, z \in 0..MaxSize}

\* the square of Vector3.length()
LengthSq(v) == v[1] * v[1] + v[2] * v[2] + v[3] * v[3]

\* the scale (1, 1, 1) of a new THREE.Group; a scale is kept as the square of
\* its factor, a fraction <<numerator, denominator>>
UnitScale == <<1, 1>>

\* variant of Oversized: a Part at 1.5 times the original counts as oversized
OversizedAtThreshold(partSize, original) ==
    4 * LengthSq(partSize) >= 9 * LengthSq(original)

\* partSize.length() > originalSize.length() * 1.5, compared in squares
Oversized(partSize, original) ==
    4 * LengthSq(partSize) > 9 * LengthSq(original)

\* group.scale.multiplyScalar(originalSize.length() / partSize.length()) on
\* the scale (1, 1, 1) when the Part is oversized, the scale left alone otherwise
ClampedScale(partSize, original) ==
    IF Oversized(partSize, original)
    THEN <<LengthSq(original), LengthSq(partSize)>>
    ELSE UnitScale

\* the square of the diagonal of a box of the given size under a uniform
\* scale, as a fraction
ScaledLengthSq(size, scale) == <<LengthSq(size) * scale[1], scale[2]>>

\* finalizeGroupCut: the safety check for oversized parts, on the way to
\* scene.add
ClampParts ==
    /\ part1Scale = NoScale
    /\ part1Scale' = ClampedScale(part1Size, originalSize)
    /\ part2Scale' = ClampedScale(part2Size, originalSize)
    /\ UNCHANGED <<originalSize, part1Size, part2Size, editorVars, matrixVars,
                   solverVars, transformVars, materialVars, exportVars>>

InitClamp ==
    /\ EditorInit
    /\ MatrixIdle /\ SolverIdle /\ TransformIdle /\ MaterialIdle /\ ExportIdle
    /\ originalSize \in Sizes
    /\ part1Size \in Sizes
    /\ part2Size \in Sizes
    /\ part1Scale = NoScale
    /\ part2Scale = NoScale

NextClamp == ClampParts

SpecClamp == InitClamp /\ [][NextClamp]_vars

\* ------------------------------------------------------- fair scheduling
\* the requestAnimationFrame and setTimeout callbacks that are pending
Callbacks ==
    \/ \E i \in DOMAIN chains : ChainAnimationFrame(i)
    \/ \E i \in DOMAIN chains : ChainTimeout(i)
    \/ \E i \in DOMAIN chains : ChainMesh(i)
    \/ \E i \in DOMAIN chains : ChainFinalize(i)
    \/ TimerCutComplete \/ TimerClearMessage

\* The browser does not leave pending callbacks waiting for ever: while one
\* is pending, one is run. User input and loads may or may not happen.
CallbackFairness == WF_vars(Callbacks)

\* what bears on a cut from its request to the end of its callbacks: loads,
\* mode switches, the pointer gesture whose pointer-up calls performCut, and
\* the callbacks; dragging and selecting Parts neither read nor write the
\* flag, the chains or the timers
NextCut ==
    \/ LoadModel \/ LoadSuccess
    \/ \E mode \in Modes : ToggleEditorMode(mode)
    \/ HandleMouseDown \/ HandleMouseMove
    \/ \E confirmCut \in BOOLEAN : HandleMouseUp(confirmCut)
    \/ \E i \in DOMAIN chains : ChainAnimationFrame(i)
    \/ \E i \in DOMAIN chains : ChainTimeout(i)
    \/ \E i \in DOMAIN chains : ChainMesh(i)
    \/ \E i \in DOMAIN chains : ChainFinalize(i)
    \/ TimerCutComplete \/ TimerClearMessage

\* the editor as the pointer gesture leaves it: a Model of n meshes is
\* loaded, the mode is Cut, and a drag of the minimum length has set both
\* points; the pointer button is still down
Aimed(n) ==
    /\ editorModeRef = "Cut"
    /\ editorMode = "Cut"
    /\ cutCountRef = 0
    /\ isProcessingRef = FALSE
    /\ modelRef = 1
    /\ modelLoaded = TRUE
    /\ pendingLoads = 0
    /\ loadsIssued = 1
    /\ modelMeshes = n
    /\ sceneModels = {1}
    /\ sceneParts = {}
    /\ objectPartsRef = << >>
    /\ selectedPartRef = NoPart
    /\ originalMaterialsRef = {}
    /\ partMaterials = NoMaterials
    /\ controlsEnabled = FALSE
    /\ dragObjects = {}
    /\ dragging = FALSE
    /\ error = "None"
    /\ mouseStartPointRef = Origin
    /\ mouseEndPointRef = Origin + MinDragDistance
    /\ moveListener = TRUE
    /\ helper = TRUE
    /\ chains = << >>
    /\ timers = {}
    /\ lastOp = "other"

InitFair == FrameIdle /\ \E n \in 0..MaxMeshes : Aimed(n)

\* from there: the pointer-up that requests the cut (the points stay, so it
\* can be repeated), loads, mode switches, and the callbacks
NextFair ==
    \/ LoadModel \/ LoadSuccess
    \/ \E mode \in Modes : ToggleEditorMode(mode)
    \/ \E confirmCut \in BOOLEAN : HandleMouseUp(confirmCut)
    \/ \E i \in DOMAIN chains : ChainAnimationFrame(i)
    \/ \E i \in DOMAIN chains : ChainTimeout(i)
    \/ \E i \in DOMAIN chains : ChainMesh(i)
    \/ \E i \in DOMAIN chains : ChainFinalize(i)
    \/ TimerCutComplete \/ TimerClearMessage

SpecFair == InitFair /\ [][NextFair]_vars /\ CallbackFairness

\* ------------------------------------------------------ the pointer gesture
\* the same, with the pointer-up that the canvas delivers outside Cut mode
NextGesture == NextCut \/ HandleMouseUpOutsideCut

SpecGesture == Init /\ [][NextGesture]_vars

\* ------------------------------------------------------------------ claims

\* the outcomes of finalizeGroupCut that are failures
FinalizeFailures == {"finalize:missingRef", "finalize:partEmpty", "finalize:assemblyThrew"}

\* all outcomes of finalizeGroupCut
FinalizeOps == FinalizeFailures \cup {"finalize:success"}

\* the ways a cut that was started ends without a commit
CutFailures == FinalizeFailures \cup {"chain:noMeshes", "chain:failedToCut"}

\* the handlers that call performCut
CutRequests == {"performCut", "mouseup:confirmed"}

\* C1: the cut counter never exceeds 1 and the scene never holds more than
\* two Parts; the Parts in the scene are always those of the first commit,
\* no later commit replaces them.
C1_OneShot ==
    /\ cutCountRef <= 1
    /\ Cardinality(sceneParts) <= 2
    /\ sceneParts \subseteq {Part1Of(1), Part2Of(1)}
    /\ Range(objectPartsRef) \subseteq {Part1Of(1), Part2Of(1)}

\* C1 witness: performCut was called again after the cut was committed
C1_Witness ==
    /\ lastOp = "performCut"
    /\ cutCountRef = 1
    /\ sceneParts = {Part1Of(1), Part2Of(1)}

\* C2: a performCut request made when the cut counter is 1 or more is
\* reported as "Model can only be cut once" (and moves nothing).
C2_SecondCutReported ==
    (lastOp = "performCut" /\ cutCountRef >= 1) => error = "OneCutOnly"

\* C3: at most one split chain is in flight, and a performCut request made
\* while the processing flag is set starts no chain and is reported as
\* "Already processing".
C3_BusyRequestReported ==
    /\ [](Len(chains) <= 1)
    /\ [][(lastOp' \in CutRequests /\ isProcessingRef)
            => (chains' = chains /\ error' = "AlreadyProcessing")]_vars

\* C4: when finalizeGroupCut finds a fragment group empty it reports
\* "Cut failed", adds no Part, leaves the Model where it was (in the scene
\* if it was there) and leaves the Part list and the cut counter unchanged.
C4_EmptyGroupLeavesScene ==
    [][lastOp' = "finalize:partEmpty"
         => /\ error' = "CutFailed"
            /\ sceneParts' = sceneParts
            /\ sceneParts' = {}
            /\ sceneModels' = sceneModels
            /\ modelRef' = modelRef
            /\ objectPartsRef' = objectPartsRef
            /\ cutCountRef' = cutCountRef
            /\ cutCountRef' = 0]_vars

\* C4 witness: finalizeGroupCut has just rejected an empty group and the
\* Model is in the scene with no Part
C4_Witness ==
    /\ lastOp = "finalize:partEmpty"
    /\ modelRef \in sceneModels
    /\ sceneParts = {}
    /\ cutCountRef = 0

\* C5: every failure of finalizeGroupCut leaves the scene as it was before
\* the attempt (the Model still in the scene if it was, no Part added, the
\* Part list and the cut counter unchanged, the failure reported), and no
\* state has the Model out of the scene without exactly two Parts in it.
C5_FailedAssemblyLeavesScene ==
    /\ []((modelRef # NoModel /\ modelRef \notin sceneModels)
            => Cardinality(sceneParts) = 2)
    /\ [][lastOp' \in FinalizeFailures
            => /\ error' = "CutFailed"
               /\ sceneModels' = sceneModels
               /\ sceneParts' = sceneParts
               /\ objectPartsRef' = objectPartsRef
               /\ cutCountRef' = cutCountRef]_vars

\* C6: when finalizeGroupCut succeeds, both Parts are in the scene, the
\* Model is not, the Part list is exactly [Part1, Part2], the cut counter
\* is 1, nothing is selected and both mode variables are Move.
C6_CommitIsWhole ==
    lastOp = "finalize:success"
      => /\ sceneParts = {Part1Of(1), Part2Of(1)}
         /\ modelRef \notin sceneModels
         /\ objectPartsRef = <<Part1Of(1), Part2Of(1)>>
         /\ cutCountRef = 1
         /\ selectedPartRef = NoPart
         /\ originalMaterialsRef = {}
         /\ editorModeRef = "Move"
         /\ editorMode = "Move"

\* C6 witness: a cut has just been committed
C6_Witness == lastOp = "finalize:success" /\ cutCountRef = 1

\* C7: a request for Cut mode made when the cut counter is 1 or more is
\* rejected with the one-cut message and leaves both mode variables in Move.
C7_CutRequestAfterCut ==
    (lastOp = "toggleCut" /\ cutCountRef >= 1)
      => /\ error = "OneCutOnlyUseReset"
         /\ editorModeRef = "Move"
         /\ editorMode = "Move"

\* C7 witness: Cut mode was requested after the cut
C7_Witness == lastOp = "toggleCut" /\ cutCountRef = 1

\* C8: a cut that fails does not move the mode machine: the mode variables
\* are what they were before the failure.
C8_FailureKeepsMode ==
    [][lastOp' \in CutFailures
         => (editorModeRef' = editorModeRef /\ editorMode' = editorMode)]_vars

\* C9: Cut mode is entered only with a Model loaded and the cut counter 0.
C9_CutNeedsModel ==
    (lastOp = "toggleCut" /\ editorModeRef = "Cut")
      => (cutCountRef = 0 /\ modelRef # NoModel)

\* C10: while the mode is Cut the camera controls are disabled.
C10_NoOrbitInCut ==
    (editorModeRef = "Cut" \/ editorMode = "Cut") => ~controlsEnabled

\* C10 witness: Cut mode during a drag of the cutting line while a chain runs
C10_Witness ==
    /\ editorModeRef = "Cut"
    /\ moveListener
    /\ Len(chains) > 0
    /\ ~controlsEnabled
\* C11: drag manipulation is attached to the Parts only while the mode is
\* Move: outside Move no Part is handed to live DragControls and no Part is
\* being dragged.
C11_DragOnlyInMove ==
    editorModeRef # "Move" => (dragObjects = {} /\ ~dragging)

\* C12: a split starts (processing flag set, chain scheduled) only in the
\* pointer-up handler after a positive confirmation.
C12_SplitNeedsConfirmation ==
    [][(Len(chains') > Len(chains) \/ (isProcessingRef' /\ ~isProcessingRef))
         => lastOp' = "mouseup:confirmed"]_vars

\* C19: the scene never holds more than one Model, and a Model in the scene
\* is the one the model reference designates.
C19_OneActiveModel ==
    /\ Cardinality(sceneModels) <= 1
    /\ sceneModels \subseteq {modelRef}

\* C20: the cut counter is scoped to the active Model: whenever the Model
\* the reference designates is in the scene (loaded and not yet consumed by
\* a cut), the counter is 0 and Cut mode is not refused.
C20_CounterScopedToModel ==
    (modelRef # NoModel /\ modelRef \in sceneModels)
      => (cutCountRef = 0 /\ ~ToggleRejectsCut("Cut", cutCountRef))
\* the outcomes of the pointer-up handler that the claims name
MouseUpOps == {"mouseup:invalid", "mouseup:confirmed"}

\* C16: a pointer-up that ends a plain click (no end point recorded) or a
\* drag shorter than the minimum distance starts no cut and reports nothing.
C16_ShortDragSilent ==
    [][(/\ lastOp' \in MouseUpOps
        /\ mouseStartPointRef # NoPoint
        /\ \/ mouseEndPointRef = NoPoint
           \/ Distance(mouseStartPointRef, mouseEndPointRef) < MinDragDistance)
         => (error' = error /\ chains' = chains)]_vars
\* C17: a cut in which one side of every mesh came out without geometry (the
\* plane misses the whole Model) is rejected and changes nothing in the
\* scene: when finalizeGroupCut is given a group with no solid Fragment (and
\* meets no exception of its own), the Model, the Parts and the counter stay
\* as they were and the failure is reported.
C17_EmptySideRejected ==
    [][(\E i \in DOMAIN chains :
          /\ chains' = Without(chains, i)
          /\ chains[i].pc = "frame" /\ chains[i].index >= chains[i].total
          /\ lastOp' \in FinalizeOps \ {"finalize:assemblyThrew"}
          /\ ~(chains[i].solid1 /\ chains[i].solid2))
         => /\ sceneModels' = sceneModels
            /\ sceneParts' = sceneParts
            /\ cutCountRef' = cutCountRef
            /\ error' = "CutFailed"]_vars
\* the Parts of which some mesh carries the highlight material
Highlighted ==
    {p \in DOMAIN partMaterials :
        \E j \in DOMAIN partMaterials[p] : partMaterials[p][j] = Highlight}

\* C13: at most one Part carries the highlight, and a Part carries it only
\* while it is the selected Part (the selection is a single reference, so
\* at most one Part is selected).
C13_SelectionExclusive ==
    /\ Cardinality(Highlighted) <= 1
    /\ Highlighted \subseteq {selectedPartRef}
    /\ selectedPartRef # NoPart => selectedPartRef \in Range(objectPartsRef)

\* C13 witness: Part 2 is selected after Part 1 had been selected
C13_Witness ==
    /\ selectedPartRef = Part2Of(1)
    /\ HasSaved(originalMaterialsRef, Part1Of(1))
    /\ Highlighted = {Part2Of(1)}

\* C14: a Part that is not selected carries, on every mesh, the very material
\* the mesh had before the Part was highlighted.
C14_MaterialsRestored ==
    \A p \in DOMAIN partMaterials :
        p # selectedPartRef
          => \A j \in DOMAIN partMaterials[p] : partMaterials[p][j] = OwnMaterial(j)
\* the outcomes of a click on the download button
ExportOps == {"export:noSelection", "export:started"}

\* C15: exportSelectedPart with no Part selected reports "No part selected",
\* starts no serialization (no blob, no download) and leaves the scene, the
\* Part list and the selection unchanged.
C15_ExportNeedsSelection ==
    [][(lastOp' \in ExportOps /\ selectedPartRef = NoPart)
         => /\ error' = "NoPartSelected"
            /\ timers' = timers
            /\ sceneParts' = sceneParts
            /\ sceneModels' = sceneModels
            /\ objectPartsRef' = objectPartsRef
            /\ selectedPartRef' = selectedPartRef
            /\ originalMaterialsRef' = originalMaterialsRef
            /\ partMaterials' = partMaterials]_vars

\* C15 witness: the download button was clicked with nothing selected
C15_Witness ==
    /\ lastOp = "export:noSelection"
    /\ selectedPartRef = NoPart
    /\ error = "NoPartSelected"
    /\ "exportParse" \notin timers

\* C18: the local plane transform computed for a mesh is inverse(mesh world
\* transform) x plane world transform, so that the mesh world transform
\* applied to it gives back the plane's world transform, whatever the mesh
\* world transform is
C18_FrameRoundTrip ==
    localPlaneMatrix # NoMatrix =>
        /\ localPlaneMatrix =
               MultiplyMatrices(Invert(meshWorldMatrix), planeWorldMatrix)
        /\ MultiplyMatrices(meshWorldMatrix, localPlaneMatrix) = planeWorldMatrix

\* one step of the chain ch to the chain after: the animation frame arms the
\* timer, or exactly the next mesh in collection order is attempted and adds
\* one Fragment to each group or none to either
ChainStep(before, after) ==
    \/ /\ before.pc = "raf" /\ after.pc = "timeout"
       /\ after = [before EXCEPT !.pc = "timeout"]
    \/ /\ before.pc \in {"timeout", "frame"} /\ after.pc = "frame"
       /\ after.index = before.index + 1
       /\ after.index <= after.total
       /\ before.pc = "frame" => (after.total = before.total /\ after.src = before.src)
       /\ \/ after.n1 = before.n1 /\ after.n2 = before.n2
          \/ after.n1 = before.n1 + 1 /\ after.n2 = before.n2 + 1

\* C21: the split chain attempts every collected mesh exactly once and in
\* order: each step of a chain attempts the mesh at its index and moves the
\* index on by one, whether the evaluation throws (no Fragment on either
\* side) or not (one Fragment on each side); a chain leaves the list only by
\* a failed collection before the first mesh or by the one call of
\* finalizeGroupCut, which happens when and only when every mesh has been
\* attempted.
C21_ChainComplete ==
    [][/\ Len(chains') = Len(chains)
          => \A i \in DOMAIN chains :
                chains'[i] = chains[i] \/ ChainStep(chains[i], chains'[i])
       /\ Len(chains') < Len(chains)
          => \E i \in DOMAIN chains :
                /\ chains' = Without(chains, i)
                /\ \/ /\ chains[i].pc = "timeout"
                      /\ lastOp' \in {"chain:noMeshes", "chain:failedToCut"}
                   \/ /\ chains[i].pc = "frame"
                      /\ chains[i].index = chains[i].total
                      /\ chains[i].n1 = chains[i].n2
                      /\ lastOp' \in FinalizeOps
       /\ lastOp' \in FinalizeOps => Len(chains') < Len(chains)]_vars

\* C21 witness: the cut of a two-mesh Model was committed with the one
\* Fragment per Part that the mesh whose evaluation did not throw produced
C21_Witness ==
    /\ lastOp = "finalize:success"
    /\ loadsIssued = 1 /\ modelMeshes = 2
    /\ Len(partMaterials[Part1Of(1)]) = 1
    /\ Len(partMaterials[Part2Of(1)]) = 1

\* C22: under fair scheduling of the animation-frame and timer callbacks the
\* processing flag, once set, is cleared again, however the cut ends: at
\* every moment the flag is clear or will be cleared.
C22_FlagCleared == []<>~isProcessingRef

\* C22 witness: the flag is clear again after a committed cut
C22_Witness ==
    /\ ~isProcessingRef
    /\ cutCountRef = 1
    /\ error = "CutComplete"

\* the chain has attempted some of its meshes and not yet all of them
MidChain(ch) == ch.pc = "frame" /\ 0 < ch.index /\ ch.index < ch.total

\* C23: the split is chunked: one callback attempts at most one mesh, after
\* which the chain is pending again (also when the mesh was skipped), and
\* finalizeGroupCut runs in a callback of its own, not in the one that
\* attempted the last mesh.
C23_OneMeshPerCallback ==
    [][/\ Len(chains') = Len(chains)
          => \A i \in DOMAIN chains :
                /\ chains'[i].index <= chains[i].index + 1
                /\ chains'[i].index > chains[i].index => chains'[i].pc = "frame"
       /\ lastOp' \in FinalizeOps
          => \E i \in DOMAIN chains :
                /\ chains' = Without(chains, i)
                /\ chains[i].pc = "frame"
                /\ chains[i].index = chains[i].total]_vars

\* C23 witness: the Cut button was handled between two mesh steps of a chain
C23_Witness ==
    /\ lastOp = "toggleCut"
    /\ \E i \in DOMAIN chains : MidChain(chains[i])

\* the outcomes of the pointer-down handler in Cut mode
MouseDownOps == {"mousedown", "mousedown:miss"}

\* C24: the plane of a cut comes from the start and end point of one and the
\* same drag: a pointer-up that directly follows the pointer-down, with no
\* pointer-move of that gesture, finds no end point to cut with and starts
\* no cut.
C24_PlaneOfSameGesture ==
    [][(lastOp \in MouseDownOps /\ lastOp' \in MouseUpOps)
         => chains' = chains]_vars

\* C25: the preview and the cut derive the plane in the same way: whenever
\* both have been computed for a drag, a camera and a Model, they have the
\* same normal and pass through the same point.
C25_PreviewEqualsCut ==
    (previewPlane # NoPlane /\ cuttingPlane # NoPlane) => previewPlane = cuttingPlane

\* C25 witness: both planes were computed for a drag that is not parallel to
\* the camera's right axis
C25_Witness ==
    /\ previewPlane # NoPlane /\ cuttingPlane # NoPlane
    /\ cuttingPlane.normal # ZeroVector
    /\ cuttingPlane.point # ZeroVector

\* C26: the plane performCut hands to the split never has a normal of length
\* zero.
C26_NormalNotZero ==
    cuttingPlane # NoPlane => cuttingPlane.normal # ZeroVector

\* C27: a pointer-down whose ray meets neither the Model nor the fallback
\* plane records no start point, ends the drag (no move listener) and
\* raises "Invalid cutting points".
C27_MissAbortsDrag ==
    [][lastOp' = "mousedown:miss"
         => /\ mouseStartPointRef' \in {NoPoint, mouseStartPointRef}
            /\ ~moveListener'
            /\ error' = "InvalidCuttingPoints"]_vars

\* every pointer-up the canvas delivers
PointerUpOps == MouseUpOps \cup {"mouseup:ignored"}

\* C28: after any pointer-up, also one that comes after the mode was changed
\* away from Cut during the gesture, no pointer-move listener is attached.
C28_ListenerGoneAfterUp ==
    [][lastOp' \in PointerUpOps => ~moveListener']_vars

\* C29: the world transform of a Fragment, before the Parts are moved apart,
\* is the world transform of the leaf mesh it was cut from, whatever the
\* transform of the Model root and of the nodes above the mesh.
C29_TransformPreserved ==
    fragmentMatrixWorld # NoMatrix
      => fragmentMatrixWorld = LeafMatrixWorld(rootMatrix, parentMatrix, meshLocalMatrix)

\* the material objects of a sequence of mesh materials, one entry per use
RECURSIVE MaterialUses(_)
MaterialUses(ms) ==
    IF ms = << >> THEN << >> ELSE Head(ms).mats \o MaterialUses(Tail(ms))

\* C30: no material object is shared: the materials the Fragments carry are
\* pairwise different objects, on one side and across the two sides, and
\* none of them is a material of the source Model.
C30_NoSharedMaterial ==
    LET uses == MaterialUses(part1Materials) \o MaterialUses(part2Materials) IN
    /\ \A i, j \in DOMAIN uses : i # j => uses[i] # uses[j]
    /\ \A i \in DOMAIN uses : uses[i] \notin Range(MaterialUses(sourceMaterials))

\* C30 witness: the two meshes of a Model share one material and each has
\* given a Fragment to both Parts
C30_Witness ==
    /\ Len(sourceMaterials) = 2
    /\ sourceMaterials[1] = sourceMaterials[2]
    /\ Len(part1Materials) = 2 /\ Len(part2Materials) = 2

\* the Part of that size got that scale: an oversized Part's diagonal now
\* equals the original's, any other Part has scale 1
Clamped(size, scale, original) ==
    IF 4 * LengthSq(size) > 9 * LengthSq(original)
    THEN LET d == ScaledLengthSq(size, scale) IN
         d[1] = LengthSq(original) * d[2]
    ELSE scale[1] = scale[2]

\* C31: after the oversize check both Parts have a scale (an oversized Part
\* does not stop the assembly); a Part whose diagonal exceeded 1.5 times the
\* original's has a diagonal equal to the original's, a Part at or below 1.5
\* times has scale 1.
C31_OversizeClamped ==
    part1Scale # NoScale =>
        /\ part2Scale # NoScale
        /\ part1Scale[2] # 0 /\ part2Scale[2] # 0
        /\ Clamped(part1Size, part1Scale, originalSize)
        /\ Clamped(part2Size, part2Scale, originalSize)

\* C31 witness: one Part was oversized and scaled down, the other was exactly
\* at 1.5 times the original and kept its scale
C31_Witness ==
    /\ part1Scale # NoScale
    /\ 4 * LengthSq(part1Size) > 9 * LengthSq(originalSize)
    /\ part1Scale # UnitScale
    /\ LengthSq(originalSize) > 0
    /\ 4 * LengthSq(part2Size) = 9 * LengthSq(originalSize)
    /\ part2Scale = UnitScale

\* C32: no pointer handler ends in an exception that nothing catches: a
\* pointer-down in Cut mode while the model reference is null (a replacement
\* Model is loading) ends as a no-op or with a message, not with a throw.
C32_HandlersDoNotThrow == lastOp # "mousedown:threw"

\* C33: in Move mode camera orbit is disabled whenever no Part is being
\* dragged; the end of a drag does not leave it enabled.
C33_NoOrbitInMove == (editorMode = "Move" /\ ~dragging) => ~controlsEnabled

\* C34: in every split chain the two Parts hold the same number of Fragments,
\* at most one per mesh attempted; so when the chain is about to finalize,
\* one Part is empty only if both are.
C34_PartsGrowTogether ==
    \A i \in DOMAIN chains :
        /\ chains[i].n1 = chains[i].n2
        /\ chains[i].n1 <= chains[i].index
        /\ (chains[i].n1 = 0 \/ chains[i].n2 = 0) =>
               (chains[i].n1 = 0 /\ chains[i].n2 = 0)

\* C34 witness: a chain that attempted two meshes, one of which failed, and
\* whose first Part got a Fragment without geometry
C34_Witness ==
    \E i \in DOMAIN chains :
        /\ chains[i].index = 2
        /\ chains[i].n1 = 1 /\ chains[i].n2 = 1
        /\ ~chains[i].solid1 /\ chains[i].solid2

\* C35: between handlers the mode the handlers act on (editorModeRef) is the
\* mode the UI shows (editorMode).
C35_ModesAgree == editorModeRef = editorMode

\* C35 witness: a cut completed while the editor was in Cut mode, and both
\* modes are Move
C35_Witness ==
    /\ lastOp = "finalize:success"
    /\ cutCountRef = 1
    /\ editorModeRef = "Move"
    /\ editorMode = "Move"

\* C36: a completed cut removes the Model its Fragments were cut from: at a
\* successful finalizeGroupCut the Model the reference designates is the
\* Model whose meshes the chain collected.
C36_PartsOfRemovedModel ==
    [][(lastOp' = "finalize:success" /\ Len(chains') < Len(chains))
          => \E i \in DOMAIN chains :
                /\ chains' = Without(chains, i)
                /\ chains[i].src = modelRef]_vars

\* the messages after which a 3-second clearing timer is armed
TimedMessages == {"CutComplete", "Exported"}

\* C37: a message-clearing timer erases only a message it was armed for: when
\* it fires, the banner is empty or shows 'Cut complete' or the export's
\* success, never the report of a later operation.
C37_TimerClearsOwnMessage ==
    [][TimerClearMessage => error \in TimedMessages \cup {"None"}]_vars

\* C38: an export that starts serializes the selected Part with the materials
\* its meshes had before the Part was highlighted, and changes neither the
\* Parts, the scene, the selection nor the saved materials.
C38_ExportReadsOriginals ==
    [][(lastOp' = "export:started" /\ selectedPartRef # NoPart /\ exportedPart' # NoPart)
         => /\ exportedPart' = selectedPartRef
            /\ \A j \in DOMAIN exportedMaterials' : exportedMaterials'[j] = OwnMaterial(j)
            /\ sceneParts' = sceneParts
            /\ sceneModels' = sceneModels
            /\ objectPartsRef' = objectPartsRef
            /\ selectedPartRef' = selectedPartRef
            /\ originalMaterialsRef' = originalMaterialsRef
            /\ partMaterials' = partMaterials]_vars

====
